---- MODULE Spec2Model ----
(***************************************************************************)
(* Model of nft-ui/lib/zknft/index.ts: the browser-side marketplace client *)
(* (identity seed kept in localStorage, listing / purchase / payment-status *)
(* wrappers over fetch).                                                    *)
(*                                                                          *)
(* Text (JSON text, hex text, decimal text) is a sequence of one-character  *)
(* strings; a byte array is a sequence of numbers in 0..255.                *)
(***************************************************************************)
EXTENDS Integers, Sequences, FiniteSets, Bags, TLC

VARIABLES
  storage,   \* localStorage of the origin: key -> text, or Absent
  call,      \* call[c]: the bag of the calls execution context c has made and not dropped
  created,   \* number of seeds generated since storage was last cleared (0, 1, 2 = more)
  faulted    \* a storage read or write has thrown since storage was last cleared

vars == <<storage, call, created, faulted>>

(***************************************************************************)
(* Bounds of the model.                                                     *)
(***************************************************************************)
NumSeeds == 2      \* distinct values ed.utils.randomPrivateKey() may return
MaxCalls == 2      \* calls of one context that may be outstanding together
NumCtx == 2        \* execution contexts (tabs) sharing the storage
MaxIdLen == 2      \* longest NFT identifier drawn (besides the sample <<1,2,3>>)
MaxRecords == 2    \* longest listing response drawn

(***************************************************************************)
(* Program constants.                                                       *)
(***************************************************************************)
KeyLen == 32                       \* bytes of an Ed25519 seed and public key
PrivateKeyName == "my-private-key" \* the storage key of the seed
OtherName == "theme"               \* some other entry of the same origin
DemoPrice == 10
DemoCurrency == "PVL"

Absent == <<"absent">>      \* localStorage.getItem: null (no such key); no text equals it
Threw == [ok |-> FALSE]     \* a call that threw (or a promise that rejected)
Ok(v) == [ok |-> TRUE, val |-> v]

(***************************************************************************)
(* Text helpers.                                                            *)
(***************************************************************************)
HexDigits == <<"0","1","2","3","4","5","6","7","8","9","a","b","c","d","e","f">>

IsHexChar(ch) == \E n \in 1..16 : HexDigits[n] = ch
IsDecChar(ch) == \E n \in 1..10 : HexDigits[n] = ch
DigitValue(ch) == (CHOOSE n \in 1..16 : HexDigits[n] = ch) - 1

\* Number.prototype.toString(10) / BN.toString(10): canonical decimal text.
RECURSIVE NumberToString(_)
NumberToString(n) ==
  IF n < 10 THEN <<HexDigits[n + 1]>>
  ELSE NumberToString(n \div 10) \o <<HexDigits[(n % 10) + 1]>>

\* Uint8Array.from(numbers) / new Uint8Array(numbers): each element taken mod 256.
Uint8ArrayFrom(nums) == [i \in 1..Len(nums) |-> nums[i] % 256]

\* web3-utils bytesToHex, little-endian byte order (a faulty variant).
RECURSIVE HexBodyReversed(_)
HexBodyReversed(bytes) ==
  IF bytes = <<>> THEN <<>>
  ELSE HexBodyReversed(Tail(bytes))
       \o <<HexDigits[(Head(bytes) \div 16) + 1], HexDigits[(Head(bytes) % 16) + 1]>>

\* The two hex digits of every byte, first byte first.
RECURSIVE HexBody(_)
HexBody(bytes) ==
  IF bytes = <<>> THEN <<>>
  ELSE <<HexDigits[(Head(bytes) \div 16) + 1], HexDigits[(Head(bytes) % 16) + 1]>>
       \o HexBody(Tail(bytes))

\* web3-utils bytesToHex: "0x" followed by two hex digits per byte.
BytesToHex(bytes) == <<"0", "x">> \o HexBody(bytes)

\* The number a run of hex digits denotes (most significant digit first).
RECURSIVE HexDigitsValue(_)
HexDigitsValue(digits) ==
  IF digits = <<>> THEN 0
  ELSE HexDigitsValue(SubSeq(digits, 1, Len(digits) - 1)) * 16
       + DigitValue(digits[Len(digits)])

\* web3-utils hexToNumberString on a "0x"-prefixed text with at least one digit.
HexToNumberString(hex) == NumberToString(HexDigitsValue(SubSeq(hex, 3, Len(hex))))

\* hexToNumberString(bytesToHex(Uint8Array.from(nftId))): the outcomes of the
\* identifier encoding.  On an empty array bytesToHex gives "0x", which
\* hexToNumberString turns into "0" or rejects, depending on the library
\* version: both outcomes are kept.
EncodeId(nftId) ==
  LET hex == BytesToHex(Uint8ArrayFrom(nftId))
  IN IF Len(nftId) = 0 THEN {Threw, Ok(<<"0">>)} ELSE {Ok(HexToNumberString(hex))}

(***************************************************************************)
(* JSON of a number array, as JSON.stringify writes it and JSON.parse reads *)
(* it.  Any text that is not a bracketed, comma-separated list of canonical *)
(* decimal numbers is reported as a SyntaxError (Threw).                    *)
(***************************************************************************)
RECURSIVE JoinNumbers(_)
JoinNumbers(nums) ==
  IF nums = <<>> THEN <<>>
  ELSE IF Len(nums) = 1 THEN NumberToString(nums[1])
  ELSE NumberToString(Head(nums)) \o <<",">> \o JoinNumbers(Tail(nums))

JSONStringify(nums) == <<"[">> \o JoinNumbers(nums) \o <<"]">>

\* The number a run of decimal digits denotes.
RECURSIVE DecDigitsValue(_)
DecDigitsValue(digits) ==
  IF digits = <<>> THEN 0
  ELSE DecDigitsValue(SubSeq(digits, 1, Len(digits) - 1)) * 10
       + DigitValue(digits[Len(digits)])

IsJSONNumber(t) ==
  /\ Len(t) >= 1
  /\ \A i \in 1..Len(t) : IsDecChar(t[i])
  /\ (Len(t) > 1 => t[1] # "0")

\* The texts between the commas of t, in order, from position pos on.
RECURSIVE SplitCommas(_, _)
SplitCommas(t, pos) ==
  IF pos > Len(t) + 1 THEN <<>>
  ELSE LET stop == CHOOSE i \in pos..(Len(t) + 1) :
                     /\ i = Len(t) + 1 \/ t[i] = ","
                     /\ \A j \in pos..(i - 1) : t[j] # ","
       IN <<SubSeq(t, pos, stop - 1)>> \o SplitCommas(t, stop + 1)

JSONParse(t) ==
  IF Len(t) < 2 \/ t[1] # "[" \/ t[Len(t)] # "]" THEN Threw
  ELSE LET inner == SubSeq(t, 2, Len(t) - 1)
           parts == SplitCommas(inner, 1)
       IN IF inner = <<>> THEN Ok(<<>>)
          ELSE IF \E i \in 1..Len(parts) : ~IsJSONNumber(parts[i]) THEN Threw
          ELSE Ok([i \in 1..Len(parts) |-> DecDigitsValue(parts[i])])

(***************************************************************************)
(* The collaborators: the Ed25519 library, localStorage, fetch.             *)
(***************************************************************************)
Ctx == 1..NumCtx

\* ed.utils.randomPrivateKey(): one of NumSeeds distinct 32-byte seeds.
Seed(i) == [k \in 1..KeyLen |-> (i * 16 + k) % 256]
Seeds == {Seed(i) : i \in 1..NumSeeds}

\* Stand-in for the Ed25519 key derivation: a fixed function of the seed that
\* yields KeyLen bytes and tells the seeds of the model apart.
PublicKeyOf(seed) == [k \in 1..KeyLen |-> (seed[KeyLen + 1 - k] * 3 + k) % 256]

\* ed.getPublicKeyAsync(seed): rejects on a seed of the wrong length, and may
\* reject when the platform's crypto is unavailable.
GetPublicKeyAsync(seed) ==
  IF Len(seed) # KeyLen THEN {Threw} ELSE {Threw, Ok(PublicKeyOf(seed))}

\* JSON.stringify / JSON.parse of the seeds of the model, computed once.
StringifyTable == [s \in Seeds |-> JSONStringify(s)]
ParseTable == [t \in {JSONStringify(s) : s \in Seeds} |-> JSONParse(t)]
Stringified(value) ==
  IF value \in DOMAIN StringifyTable THEN StringifyTable[value] ELSE JSONStringify(value)
Parsed(text) ==
  IF text \in DOMAIN ParseTable THEN ParseTable[text] ELSE JSONParse(text)

NullValue == [isNull |-> TRUE]
Value(v) == [isNull |-> FALSE, val |-> v]

\* getLocalStorage(key): null when getItem throws, when the key is absent or
\* holds the empty text, or when the text does not parse.
GetLocalStorage(st, key, getItemThrows) ==
  IF getItemThrows THEN NullValue
  ELSE IF st[key] = Absent \/ st[key] = <<>> THEN NullValue
  ELSE LET parsed == Parsed(st[key])
       IN IF parsed.ok THEN Value(parsed.val) ELSE NullValue

\* setLocalStorage that keeps an entry already present (a faulty variant).
SetLocalStorageIfAbsent(st, key, value, setItemThrows) ==
  IF setItemThrows \/ st[key] # Absent THEN st
  ELSE [st EXCEPT ![key] = Stringified(value)]

\* setLocalStorage(key, value): a throwing setItem is logged and dropped.
SetLocalStorage(st, key, value, setItemThrows) ==
  IF setItemThrows THEN st ELSE [st EXCEPT ![key] = Stringified(value)]

ListedNftsUrl == "http://127.0.0.1:7000/listed-nfts/"
BuyNftUrl == "http://127.0.0.1:7000/buy-nft/"
CheckPaymentUrl == "http://127.0.0.1:7000/check-payment/"

Statuses == {200, 299, 300, 404}

\* What a fetch settles to: a rejection, or a response with a status.
Reply(status) == Ok([status |-> status])
FetchReplies == {Threw} \cup {Reply(n) : n \in Statuses}

(***************************************************************************)
(* Calls.  A context holds the calls it has made in a bag of at most        *)
(* `limit` records; the caller's next call takes the place of a settled     *)
(* one, or is added while there is room.                                    *)
(*   pc: "gen"   in getPrivateKey, the read returned null (line 34)         *)
(*       "log"   in getPrivateKey, awaiting getPublicKeyAsync (line 39)     *)
(*       "pub"   in buyNFT, awaiting getPublicKeyAsync (line 92)            *)
(*       "post"  in buyNFT, awaiting fetch (line 102)                       *)
(*       "done"  the promise has settled                                    *)
(***************************************************************************)
NoReply == [none |-> TRUE]

NoCall ==
  [op |-> "none", pc |-> "none",
   arg |-> <<>>,          \* the arguments
   seed |-> <<>>,         \* privKey / privateKey, once set
   wrote |-> "none",      \* setLocalStorage: "none" (not called), "threw", "ok"
   sent |-> <<>>,         \* the HTTP requests issued
   reply |-> NoReply,     \* what the call's fetch settled to
   out |-> "pending",     \* the promise: "pending", "resolved", "rejected"
   ret |-> <<>>,          \* the value it resolved to
   prev |-> <<>>,         \* the seed the getPrivateKey call before this one returned
   clr |-> FALSE]         \* storage was cleared after this call started

\* A context that suspends a call between the read and the write (a faulty variant).
HoldsThreadNever(pc) == FALSE

\* A context runs one call at a time up to that call's next await: a call
\* between the read and the write of getPrivateKey holds the context.
HoldsThread(pc) == pc = "gen"

Calls(c) == BagToSet(call[c])

\* Call r of context c may take a step: no other call holds the context.
CanRun(c, r) ==
  \A u \in Calls(c) : HoldsThread(u.pc) => (u = r /\ CopiesIn(u, call[c]) = 1)

\* The records a new call may take the place of.
Places(c, limit) ==
  IF \E u \in Calls(c) : HoldsThread(u.pc) THEN {}
  ELSE {r \in Calls(c) : r.pc = "done"}
       \cup (IF BagCardinality(call[c]) < limit THEN {NoCall} ELSE {})

Replaced(c, old, new) ==
  [call EXCEPT ![c] = (@ (-) SetToBag({old})) (+) SetToBag({new})]

\* The record of a call as it starts in the place of `before`.  A caller
\* that makes its calls one at a time (limit 1) remembers what the
\* getPrivateKey call before this one returned.
Started(before, op, arg, limit) ==
  [NoCall EXCEPT !.op = op, !.arg = arg,
     !.prev = IF limit = 1 /\ op = "getPrivateKey" /\ before.op = "getPrivateKey"
                 /\ before.out = "resolved" /\ ~before.clr
              THEN before.ret ELSE <<>>]

\* The record of call r once its promise has settled: its locals are gone.
Settled(r, out, ret) ==
  [r EXCEPT !.pc = "done", !.out = out, !.ret = ret, !.seed = <<>>, !.wrote = "none"]

Bump(n) == IF n >= 2 THEN 2 ELSE n + 1

Init ==
  /\ storage = [k \in {PrivateKeyName, OtherName} |-> Absent]
  /\ call = [c \in Ctx |-> EmptyBag]
  /\ created = 0
  /\ faulted = FALSE

\* getPrivateKey, line 32 and the test of line 34, on behalf of call `me`
\* starting in the place of `before`.  `onFound` is the pc after the else
\* branch has returned the stored seed.
ReadSeed(c, before, me, onFound) ==
  \E getItemThrows \in BOOLEAN :
    LET seed == GetLocalStorage(storage, PrivateKeyName, getItemThrows)
    IN /\ call' = Replaced(c, before,
                     IF seed.isNull
                     THEN [me EXCEPT !.pc = "gen"]
                     ELSE IF onFound = "done"
                     THEN Settled(me, "resolved", Uint8ArrayFrom(seed.val))
                     ELSE [me EXCEPT !.pc = onFound,
                                     !.seed = Uint8ArrayFrom(seed.val)])
       /\ faulted' = (faulted \/ getItemThrows)
       /\ UNCHANGED <<storage, created>>

\* getPrivateKey() is called (lines 31-34; 43-45 when the seed is stored).
CallGetPrivateKey(c, limit) ==
  \E before \in Places(c, limit) :
    ReadSeed(c, before, Started(before, "getPrivateKey", <<>>, limit), "done")

\* buyNFT(paymentSender, nftId) is called (lines 86-91, then getPrivateKey's
\* lines 31-34; with a stored seed lines 43-45 and the call of line 92).
CallBuyNFT(c, limit, paymentSender, nftId) ==
  \E before \in Places(c, limit) :
    ReadSeed(c, before,
             Started(before, "buyNFT",
                     [paymentSender |-> paymentSender, nftId |-> nftId], limit),
             "pub")

\* getPrivateKey, lines 35-39: generate, store, start the derivation.
GenerateAndStore(c) ==
  \E me \in Calls(c), privKey \in Seeds, setItemThrows \in BOOLEAN :
    /\ me.pc = "gen"
    /\ CanRun(c, me)
    /\ storage' = SetLocalStorage(storage, PrivateKeyName, privKey, setItemThrows)
    /\ call' = Replaced(c, me,
                 [me EXCEPT !.pc = "log", !.seed = privKey,
                            !.wrote = IF setItemThrows THEN "threw" ELSE "ok"])
    /\ created' = Bump(created)
    /\ faulted' = (faulted \/ setItemThrows)

\* buyNFT's handler that lets the failure out (a faulty variant).
CaughtRethrown == "rejected"

\* buyNFT, lines 110-113: the catch logs and returns.
Caught == "resolved"

\* getPrivateKey, line 41: return privKey.
GeneratedResult(privKey, st) == privKey

\* getPrivateKey, lines 39-41: the awaited derivation settles.  A rejection
\* rejects getPrivateKey, which buyNFT catches (lines 110-113); after a
\* return buyNFT goes on to the call of line 92.
KeyLogged(c) ==
  \E me \in Calls(c) :
    /\ me.pc = "log"
    /\ CanRun(c, me)
    /\ \E pub \in GetPublicKeyAsync(me.seed) :
         LET key == GeneratedResult(me.seed, storage)
         IN call' = Replaced(c, me,
              IF me.op = "getPrivateKey"
              THEN IF pub.ok
                   THEN Settled(me, "resolved", key)
                   ELSE Settled(me, "rejected", <<>>)
              ELSE IF pub.ok
                   THEN [me EXCEPT !.pc = "pub", !.seed = key]
                   ELSE Settled(me, Caught, <<>>))
    /\ UNCHANGED <<storage, created, faulted>>

\* buyNFT, lines 93-99.
BuyNftQuery(paymentSender, nftIdText, publicKey) ==
  [nft_id |-> nftIdText, payment_sender |-> paymentSender,
   nft_receiver |-> BytesToHex(publicKey)]

Request(method, url, path, body) ==
  [method |-> method, url |-> url, path |-> path, body |-> body]

\* buyNFT, lines 92-102: the derivation settles, the query is built and
\* the POST is issued; a rejection or a throwing encoding is caught.
PublicKeyDerived(c) ==
  \E me \in Calls(c) :
    /\ me.pc = "pub"
    /\ CanRun(c, me)
    /\ \E pub \in GetPublicKeyAsync(me.seed), enc \in EncodeId(me.arg.nftId) :
         call' = Replaced(c, me,
              IF pub.ok /\ enc.ok
              THEN [me EXCEPT !.pc = "post",
                      !.sent = Append(@, Request("POST", BuyNftUrl, <<>>,
                                 BuyNftQuery(me.arg.paymentSender, enc.val, pub.val)))]
              ELSE Settled(me, Caught, <<>>))
    /\ UNCHANGED <<storage, created, faulted>>

\* buyNFT, lines 102-114: the POST settles; the response is not looked at.
PostSettled(c, replies) ==
  \E me \in Calls(c), reply \in replies :
    /\ me.pc = "post"
    /\ CanRun(c, me)
    /\ call' = Replaced(c, me,
                 Settled([me EXCEPT !.reply = reply],
                         IF reply.ok THEN "resolved" ELSE Caught, <<>>))
    /\ UNCHANGED <<storage, created, faulted>>

\* checkPayment, lines 121-126, once the fetch has settled; a rejected fetch
\* rejects checkPayment, which has no handler.
CheckPaymentResult(reply) ==
  IF ~reply.ok THEN [out |-> "rejected", ret |-> <<>>]
  ELSE [out |-> "resolved", ret |-> (reply.val.status >= 200 /\ reply.val.status <= 299)]

\* checkPayment(nft_id), lines 116-127: a throwing encoding rejects before
\* any request is made.
CallCheckPayment(c, limit, nft_id) ==
  \E before \in Places(c, limit), enc \in EncodeId(nft_id), reply \in FetchReplies :
    LET me == Started(before, "checkPayment", [nft_id |-> nft_id], limit)
        res == CheckPaymentResult(reply)
    IN /\ call' = Replaced(c, before,
            IF ~enc.ok THEN Settled(me, "rejected", <<>>)
            ELSE Settled([me EXCEPT !.sent = <<Request("GET", CheckPaymentUrl, enc.val, <<>>)>>,
                                    !.reply = reply],
                         res.out, res.ret))
       /\ UNCHANGED <<storage, created, faulted>>

\* Listing records as the service may send them; the second carries a price
\* and a currency of its own.
NftSamples ==
  {[id |-> <<1>>, name |-> "ape"],
   [id |-> <<2>>, name |-> "cat", price |-> 99, currency_symbol |-> "ETH"]}

NftLists == UNION {[1..n -> NftSamples] : n \in 0..MaxRecords}

\* What the listing fetch settles to: a rejection; a status other than 2xx;
\* a 2xx whose body is no JSON ("text"), is JSON that cannot be iterated
\* ("object"), or is an array of records.
ListingReplies ==
  {Threw}
  \cup {Ok([status |-> n, body |-> [kind |-> "text"]]) : n \in {300, 404}}
  \cup {Ok([status |-> n, body |-> b]) :
          n \in {200, 299},
          b \in {[kind |-> "text"], [kind |-> "object"]}
                \cup {[kind |-> "array", items |-> l] : l \in NftLists}}

\* The listing item in which the record's own fields win (a faulty variant).
ForSaleItemRecordWins(nft) ==
  [f \in DOMAIN nft \cup {"price", "currency_symbol"} |->
     IF f \in DOMAIN nft THEN nft[f]
     ELSE IF f = "price" THEN DemoPrice ELSE DemoCurrency]

\* getForSaleNFTs, lines 64-68: { ...nft, price: 10, currency_symbol: "PVL" }.
ForSaleItem(nft) ==
  [f \in DOMAIN nft \cup {"price", "currency_symbol"} |->
     IF f = "price" THEN DemoPrice
     ELSE IF f = "currency_symbol" THEN DemoCurrency
     ELSE nft[f]]

\* getForSaleNFTs, lines 60-70: the loop that pushes one item per record.
ForSaleItems(jsonData) == [i \in 1..Len(jsonData) |-> ForSaleItem(jsonData[i])]

\* getForSaleNFTs, lines 75-83: a status other than 2xx, and anything thrown
\* in the try block, give the empty list.
ForSaleFailed == [out |-> "resolved", ret |-> <<>>]

\* getForSaleNFTs, lines 53-83, once the fetch has settled.
ForSaleResult(reply) ==
  IF ~reply.ok THEN ForSaleFailed
  ELSE IF ~(reply.val.status >= 200 /\ reply.val.status <= 299) THEN ForSaleFailed
  ELSE IF reply.val.body.kind # "array" THEN ForSaleFailed
  ELSE [out |-> "resolved", ret |-> ForSaleItems(reply.val.body.items)]

\* getForSaleNFTs(), lines 49-84.
CallGetForSaleNFTs(c, limit) ==
  \E before \in Places(c, limit), reply \in ListingReplies :
    LET me == Started(before, "getForSaleNFTs", <<>>, limit)
        res == ForSaleResult(reply)
    IN /\ call' = Replaced(c, before,
            Settled([me EXCEPT !.sent = <<Request("GET", ListedNftsUrl, <<>>, <<>>)>>,
                               !.reply = reply],
                    res.out, res.ret))
       /\ UNCHANGED <<storage, created, faulted>>

MenuTypes == {"main", "footer"}
MainMenu == <<[title |-> "Home", path |-> "/"], [title |-> "About", path |-> "/about"]>>

\* getMenu(type), lines 129-153: the same two entries for every type.
CallGetMenu(c, limit, type) ==
  \E before \in Places(c, limit) :
    /\ call' = Replaced(c, before,
         Settled(Started(before, "getMenu", [type |-> type], limit),
                 "resolved", IF type = "main" THEN MainMenu ELSE MainMenu))
    /\ UNCHANGED <<storage, created, faulted>>

\* What a clearing of the storage leaves of a call's record.
Wiped(r) == [r EXCEPT !.prev = <<>>, !.clr = TRUE]

RECURSIVE CopiesOf(_, _)
CopiesOf(b, rs) ==
  IF rs = {} THEN 0
  ELSE LET r == CHOOSE x \in rs : TRUE
       IN CopiesIn(r, b) + CopiesOf(b, rs \ {r})

\* The bag of the records of bag b, each as Wiped leaves it.
WipedBag(b) ==
  LET out == {Wiped(r) : r \in BagToSet(b)}
  IN IF out = {} THEN EmptyBag
     ELSE [w \in out |-> CopiesOf(b, {r \in BagToSet(b) : Wiped(r) = w})]

\* The storage is cleared from outside the module (localStorage.clear()).
ClearStorage ==
  /\ storage' = [k \in DOMAIN storage |-> Absent]
  /\ call' = [c \in Ctx |-> WipedBag(call[c])]
  /\ created' = 0
  /\ faulted' = FALSE

(***************************************************************************)
(* Spec: one execution context that makes its calls one at a time, with     *)
(* every operation of the module, storage failures and external clearing.   *)
(***************************************************************************)
Senders == {"addr1", "addr2"}
IdBytes == {0, 1, 255}
Ids == UNION {[1..n -> IdBytes] : n \in 0..MaxIdLen} \cup {<<1, 2, 3>>}

Next ==
  \/ CallGetPrivateKey(1, 1)
  \/ \E p \in Senders, id \in Ids : CallBuyNFT(1, 1, p, id)
  \/ GenerateAndStore(1)
  \/ KeyLogged(1)
  \/ PublicKeyDerived(1)
  \/ PostSettled(1, FetchReplies)
  \/ \E id \in Ids : CallCheckPayment(1, 1, id)
  \/ CallGetForSaleNFTs(1, 1)
  \/ \E type \in MenuTypes : CallGetMenu(1, 1, type)
  \/ ClearStorage

Spec == Init /\ [][Next]_vars

(***************************************************************************)
(* SpecOverlap: one execution context whose getPrivateKey and buyNFT calls  *)
(* overlap, with storage failures and external clearing.                    *)
(***************************************************************************)
OverlapSender == "addr1"
OverlapId == <<1, 2, 3>>
OverlapReplies == {Threw, Reply(200)}

NextOverlap ==
  \/ CallGetPrivateKey(1, MaxCalls)
  \/ CallBuyNFT(1, MaxCalls, OverlapSender, OverlapId)
  \/ GenerateAndStore(1)
  \/ KeyLogged(1)
  \/ PublicKeyDerived(1)
  \/ PostSettled(1, OverlapReplies)
  \/ ClearStorage

SpecOverlap == Init /\ [][NextOverlap]_vars

(***************************************************************************)
(* SpecRace: several execution contexts on the same storage, each making    *)
(* getPrivateKey calls one at a time.  Between contexts nothing orders the  *)
(* read of one and the write of another.                                    *)
(***************************************************************************)
NextRace ==
  \/ \E c \in Ctx : CallGetPrivateKey(c, 1)
  \/ \E c \in Ctx : GenerateAndStore(c)
  \/ \E c \in Ctx : KeyLogged(c)

SpecRace == Init /\ [][NextRace]_vars

(***************************************************************************)
(* Properties.                                                              *)
(***************************************************************************)
StoredKey == storage[PrivateKeyName]

IsGetPrivateKeyResult(r) ==
  r.op = "getPrivateKey" /\ r.pc = "done" /\ r.out = "resolved"

\* The number a byte array denotes when read most significant byte first.
RECURSIVE BigEndianValue(_)
BigEndianValue(bytes) ==
  IF bytes = <<>> THEN 0
  ELSE BigEndianValue(SubSeq(bytes, 1, Len(bytes) - 1)) * 256 + bytes[Len(bytes)]

\* The number the first k characters of a run of decimal digits denote.
RECURSIVE DecimalValue(_, _)
DecimalValue(text, k) ==
  IF k = 0 THEN 0 ELSE DecimalValue(text, k - 1) * 10 + DigitValue(text[k])

\* text is the decimal numeral of n: digits only, no leading zero, value n.
IsDecimalOf(text, n) ==
  /\ Len(text) >= 1
  /\ \A i \in 1..Len(text) : IsDecChar(text[i])
  /\ (Len(text) > 1 => text[1] # "0")
  /\ DecimalValue(text, Len(text)) = n

\* The bytes a run of hex digits spells, two digits a byte.
HexDecode(digits) ==
  [i \in 1..(Len(digits) \div 2) |->
     DigitValue(digits[2 * i - 1]) * 16 + DigitValue(digits[2 * i])]

IsHexText(digits) == \A i \in 1..Len(digits) : IsHexChar(digits[i])

\* C1: a getPrivateKey call that follows a settled getPrivateKey
\* call, with no clearing of the storage since that one started, returns the
\* seed that one returned.
C1_SameSeedTwice ==
  \A r \in Calls(1) :
    IsGetPrivateKeyResult(r) /\ r.prev # <<>> => r.ret = r.prev

\* C2: between two clearings of the storage a seed is generated at most
\* once, and no call replaces a stored seed, whatever the storage reads and
\* writes do.
C2_GeneratedOnce ==
  /\ [](created <= 1)
  /\ [][StoredKey # Absent => StoredKey' \in {StoredKey, Absent}]_vars

\* C3: once checkPayment has made its request, its promise
\* resolves, to true exactly when the response has a 2xx status and to false
\* on any other status and on a rejected fetch.
C3_CheckPaymentNeverRejects ==
  \A r \in Calls(1) :
    r.op = "checkPayment" /\ r.pc = "done" /\ r.sent # <<>> =>
      /\ r.out = "resolved"
      /\ r.ret = (r.reply.ok /\ r.reply.val.status \in 200..299)

\* C4: getForSaleNFTs always resolves; to the empty list when the fetch
\* rejects or the status is not 2xx (or the 2xx body is no array), and on a
\* 2xx array to one item per record, in order, with the record's fields and
\* price 10, currency_symbol "PVL".
C4_ForSaleListing ==
  \A r \in Calls(1) :
    r.op = "getForSaleNFTs" /\ r.pc = "done" =>
      /\ r.out = "resolved"
      /\ (~r.reply.ok => r.ret = <<>>)
      /\ (r.reply.ok /\ r.reply.val.status \notin 200..299 => r.ret = <<>>)
      /\ (r.reply.ok /\ r.reply.val.status \in 200..299 =>
            IF r.reply.val.body.kind # "array" THEN r.ret = <<>>
            ELSE LET items == r.reply.val.body.items
                 IN /\ Len(r.ret) = Len(items)
                    /\ \A i \in 1..Len(items) :
                         /\ DOMAIN r.ret[i] = DOMAIN items[i] \cup {"price", "currency_symbol"}
                         /\ r.ret[i].price = 10
                         /\ r.ret[i].currency_symbol = "PVL"
                         /\ \A f \in DOMAIN items[i] \ {"price", "currency_symbol"} :
                              r.ret[i][f] = items[i][f])

\* A 2xx listing of two records, the second with a price of its own.
C4_Witness ==
  \E r \in Calls(1) :
    /\ r.op = "getForSaleNFTs" /\ r.pc = "done" /\ r.reply.ok
    /\ r.reply.val.status = 299 /\ r.reply.val.body.kind = "array"
    /\ Len(r.ret) = 2
    /\ r.reply.val.body.items[1].name = "ape" /\ r.ret[1].name = "ape"
    /\ "price" \in DOMAIN r.reply.val.body.items[2]
    /\ r.reply.val.body.items[2].price = 99 /\ r.ret[2].price = 10

\* C5: a buyNFT call never rejects, resolves without a value, and issues at
\* most one request, a POST to /buy-nft/.
C5_BuyNeverRejects ==
  \A r \in Calls(1) :
    r.op = "buyNFT" =>
      /\ r.out # "rejected"
      /\ (r.pc = "done" => r.out = "resolved" /\ r.ret = <<>>)
      /\ Len(r.sent) <= 1
      /\ \A i \in 1..Len(r.sent) : r.sent[i].method = "POST" /\ r.sent[i].url = BuyNftUrl
      /\ (r.reply # NoReply => Len(r.sent) = 1)

\* A buyNFT whose POST was rejected by the network, resolved all the same.
C5_Witness ==
  \E r \in Calls(1) :
    r.op = "buyNFT" /\ r.pc = "done" /\ r.reply = Threw /\ r.out = "resolved" /\ Len(r.sent) = 1

\* C6: the nft_id of buyNFT's body and the path checkPayment appends to its
\* URL are the decimal numeral of the identifier's bytes read big-endian, so
\* the same text for the same identifier, and payment_sender is the argument.
C6_IdIsBigEndianDecimal ==
  \A r \in Calls(1) :
    /\ (r.op = "buyNFT" /\ r.sent # <<>> =>
          /\ IsDecimalOf(r.sent[1].body.nft_id, BigEndianValue(r.arg.nftId))
          /\ r.sent[1].body.payment_sender = r.arg.paymentSender)
    /\ (r.op = "checkPayment" /\ r.sent # <<>> =>
          /\ IsDecimalOf(r.sent[1].path, BigEndianValue(r.arg.nft_id))
          /\ r.sent[1].url = CheckPaymentUrl)

\* buyNFT("addr1", [1,2,3]) has posted nft_id "66051".
C6_Witness ==
  \E r \in Calls(1) :
    /\ r.op = "buyNFT" /\ r.sent # <<>>
    /\ r.arg = [paymentSender |-> "addr1", nftId |-> <<1, 2, 3>>]
    /\ r.sent[1].body.nft_id = <<"6", "6", "0", "5", "1">>
    /\ r.sent[1].body.payment_sender = "addr1"

\* The requests the step has just issued.
NewlyPosted == {r \in Calls(1)' : r.pc = "post" /\ r \notin Calls(1)}

\* C7: the nft_receiver of a request is 64 hex characters that
\* spell the public key of the seed the storage holds as the request is sent.
C7_ReceiverIs64HexOfStoredSeed ==
  [][\A r \in NewlyPosted :
       LET receiver == r.sent[1].body.nft_receiver
       IN /\ Len(receiver) = 64
          /\ IsHexText(receiver)
          /\ StoredKey # Absent
          /\ Parsed(StoredKey).ok
          /\ HexDecode(receiver) = PublicKeyOf(Parsed(StoredKey).val)]_vars

\* The call of a context that makes its calls one at a time.
TheCall(c) == IF call[c] = EmptyBag THEN NoCall ELSE CHOOSE r \in Calls(c) : TRUE

\* C8: between contexts, a write that lands replaces whatever the key held,
\* and a call that generated a seed returns that seed, whatever the storage
\* holds by then.
C8_LastWriteWins ==
  /\ [][\A c \in Ctx :
          TheCall(c).pc = "gen" /\ TheCall(c)'.pc = "log" /\ TheCall(c)'.wrote = "ok"
            => StoredKey' = Stringified(TheCall(c)'.seed)]_vars
  /\ [][\A c \in Ctx :
          TheCall(c).pc = "log" /\ TheCall(c)'.pc = "done" /\ TheCall(c)'.out = "resolved"
            => TheCall(c)'.ret = TheCall(c).seed]_vars

\* Two contexts whose first calls both found the key absent, with no storage
\* failure: two seeds generated, two different seeds returned, the storage
\* left with one of them.
C8_Witness ==
  \E c1, c2 \in Ctx :
    /\ c1 # c2 /\ ~faulted /\ created = 2
    /\ IsGetPrivateKeyResult(TheCall(c1)) /\ IsGetPrivateKeyResult(TheCall(c2))
    /\ TheCall(c1).prev = <<>> /\ TheCall(c2).prev = <<>>
    /\ TheCall(c1).ret # TheCall(c2).ret
    /\ StoredKey = Stringified(TheCall(c2).ret)

\* The storage changes only by a clearing or by the write of a getPrivateKey
\* (in its own call or in a buyNFT), and then only under the one key; no
\* other operation and no settling of a POST touches it.
StorageFrame ==
  [][storage' # storage =>
       \/ \A k \in DOMAIN storage : storage'[k] = Absent
       \/ /\ \A k \in DOMAIN storage \ {PrivateKeyName} : storage'[k] = storage[k]
          /\ \E r \in Calls(1) : r.pc = "gen" /\ r.op \in {"getPrivateKey", "buyNFT"}
          /\ \E r \in Calls(1)' : r.pc = "log" /\ StoredKey' = Stringified(r.seed)]_vars

\* C9: with the frame above, a buyNFT that found the storage empty and
\* generated the seed has it in the storage while its POST is pending, and
\* the settling of the POST leaves it there.
C9_SeedStoredBeforePost ==
  /\ StorageFrame
  /\ [](\A r \in Calls(1) :
          r.op = "buyNFT" /\ r.pc = "post" /\ r.wrote # "none" /\ ~r.clr
            => StoredKey = Stringified(r.seed))

\* The seed a call has obtained, if any.
Obtained(r) ==
  IF r.seed # <<>> THEN {r.seed}
  ELSE IF IsGetPrivateKeyResult(r) THEN {r.ret}
  ELSE {}

\* C10: in one context, as long as no storage read or write has thrown since
\* the storage was last cleared, one seed at most has been generated since,
\* and every call started since has obtained the stored seed.
C10_OverlappingCallsShareSeed ==
  ~faulted =>
    /\ created <= 1
    /\ \A r \in Calls(1) : \A s \in Obtained(r) :
         ~r.clr => created = 1 /\ StoredKey = Stringified(s)

\* Calls started on empty storage before any has settled: one
\* generated, the others read the seed back.
C10_Witness ==
  /\ ~faulted /\ created = 1
  /\ BagCardinality(call[1]) >= 2
  /\ \A r \in Calls(1) : r.pc \in {"log", "pub"} /\ ~r.clr /\ StoredKey = Stringified(r.seed)
  /\ \E r \in Calls(1) : r.wrote = "ok"
  /\ \E r \in Calls(1) : r.wrote = "none"

====
